---- MODULE Spec2Model ----
(***************************************************************************)
(* Buffer pool manager (src/buffer/buffer_pool_manager.cpp) and its LRU    *)
(* replacer (src/buffer/lru_replacer.cpp).  Every public operation is one  *)
(* action; the disk manager is an external collaborator and is modelled    *)
(* by the set of allocated page ids and the stored page contents.          *)
(***************************************************************************)
EXTENDS Integers, Sequences, FiniteSets, TLC

\* ---- bounds ----
PoolSize == 1
NumPages == 2
MaxPin == 2
MaxData == 1
LRUPages == 4
NumThreads == 2

\* ---- program constants ----
INVALID_PAGE_ID == -1
NoFrame == -1

Frames == 0 .. (PoolSize - 1)
PageIds == 0 .. (NumPages - 1)
PageKeys == PageIds \cup {INVALID_PAGE_ID}
Data == 0 .. MaxData
Zeroes == 0
NoData == MaxData + 1
Threads == 1 .. NumThreads

VARIABLES pages_, page_table_, free_list_, list_frame_id, latch_, disk, allocated, lastOp,
          pins, expect, order, pending

vars == <<pages_, page_table_, free_list_, list_frame_id, latch_, disk, allocated, lastOp,
          pins, expect, order, pending>>

\* ---- helpers on sequences ----
Range(s) == {s[i] : i \in 1 .. Len(s)}

RemoveFrom(s, x) == SelectSeq(s, LAMBDA y : y # x)

\* ---- LRUReplacer ----
maxLen == PoolSize

Size(list) == Len(list)

\* Victim that returns the front (most recently unpinned) entry
VictimFrame_Front(list) == IF list = <<>> THEN NoFrame ELSE list[1]

\* Victim: the back of the list is returned and removed.
VictimFrame(list) == IF list = <<>> THEN NoFrame ELSE list[Len(list)]

VictimList(list) == IF list = <<>> THEN list ELSE SubSeq(list, 1, Len(list) - 1)

\* Pin: erase the frame if it is tracked.
Pin(list, frame_id) == RemoveFrom(list, frame_id)

\* the for-loop of Unpin for a replacer constructed with num_pages = n:
\* pop the front while Size() >= maxLen
RECURSIVE DiscardLoopN(_, _)
DiscardLoopN(list, n) ==
  IF Size(list) >= n /\ list # <<>> THEN DiscardLoopN(Tail(list), n) ELSE list

\* Unpin of a replacer constructed with num_pages = n
UnpinN(list, frame_id, n) ==
  IF frame_id \in Range(list) THEN list ELSE <<frame_id>> \o DiscardLoopN(list, n)

\* the for-loop of Unpin in the buffer pool's replacer
DiscardLoop(list) == DiscardLoopN(list, maxLen)

\* Unpin that returns without inserting the frame
Unpin_NoInsert(list, frame_id) == list

\* Unpin that pushes the frame without looking it up first
Unpin_NoCheck(list, frame_id) == <<frame_id>> \o list

\* Unpin: no-op when tracked, otherwise push to the front.
Unpin(list, frame_id) == UnpinN(list, frame_id, maxLen)

\* ---- DiskManager (external collaborator) ----
WritePage(d, page_id, data) ==
  IF page_id \in PageIds THEN [d EXCEPT ![page_id] = data] ELSE d

ReadPage(d, page_id) == IF page_id \in PageIds THEN d[page_id] ELSE Zeroes

DeallocatePage(a, page_id) == a \ {page_id}

\* ---- Page ----
EmptyPage == [page_id |-> INVALID_PAGE_ID, pin_count |-> 0, is_dirty |-> FALSE, data |-> Zeroes]

ResetMemory(page) == [page EXCEPT !.data = Zeroes]

\* the last call: its name, page id, frame, boolean result (for Page* results:
\* non-null) and where the frame came from ("hit", "free", "victim", "none")
Op(op, page_id, frame, ok, via) ==
  [op |-> op, page_id |-> page_id, frame |-> frame, ok |-> ok, via |-> via]

\* pending[t]: the page id and frame of the fetch_page hit that thread t has
\* run up to latch_.unlock() and not yet returned from; Idle otherwise
Idle == [page_id |-> INVALID_PAGE_ID, frame |-> NoFrame]

Init ==
  /\ pages_ = [f \in Frames |-> EmptyPage]
  /\ page_table_ = [p \in PageKeys |-> NoFrame]
  /\ free_list_ = [i \in 1 .. PoolSize |-> i - 1]
  /\ list_frame_id = <<>>
  /\ latch_ = FALSE
  /\ disk = [p \in PageIds |-> Zeroes]
  /\ allocated = {}
  /\ lastOp = Op("init", INVALID_PAGE_ID, NoFrame, TRUE, "none")
  /\ pins = [p \in PageKeys |-> 0]
  /\ expect = [p \in PageIds |-> NoData]
  /\ order = <<>>
  /\ pending = [t \in Threads |-> Idle]

\* ---- BufferPoolManager helpers ----
Erase(table, page_id) == [table EXCEPT ![page_id] = NoFrame]

\* the page ids the loop over page_table_ may find for a frame
\* (unordered_map iteration order is unspecified)
LookupKeys(table, frame_id) ==
  LET ks == {k \in PageKeys : table[k] = frame_id}
  IN IF ks = {} THEN {INVALID_PAGE_ID} ELSE ks

\* page ids AllocatePage may return: any id that is not outstanding
AllocatePage(a) == PageIds \ a

\* metadata written by the miss path of FetchPageImpl
FetchInstall(page, page_id, data) ==
  [page_id |-> page_id, pin_count |-> page.pin_count + 1, is_dirty |-> FALSE, data |-> data]

\* metadata written by NewPageImpl for the frame it obtained
NewPageInstall(page, page_id) ==
  [page_id |-> page_id, pin_count |-> 1, is_dirty |-> FALSE, data |-> page.data]

\* the victim branch of NewPageImpl applied to the victim's frame
NewPageEvict(page) ==
  ResetMemory([page EXCEPT !.page_id = INVALID_PAGE_ID,
                           !.pin_count = IF page.is_dirty THEN 0 ELSE page.pin_count])

\* page_table_.insert: keeps an existing mapping of the key
Insert(table, page_id, frame_id) ==
  IF table[page_id] # NoFrame THEN table ELSE [table EXCEPT ![page_id] = frame_id]

\* ---- BufferPoolManager::FetchPageImpl ----
FetchPageImpl(page_id) ==
  /\ ~latch_
  /\ UNCHANGED <<latch_, allocated>>
  /\ IF page_table_[page_id] # NoFrame
     THEN LET f == page_table_[page_id] IN
          /\ pages_[f].pin_count < MaxPin
          /\ list_frame_id' = Pin(list_frame_id, f)
          /\ pages_' = [pages_ EXCEPT ![f].pin_count = @ + 1]
          /\ lastOp' = Op("fetch", page_id, f, TRUE, "hit")
          /\ UNCHANGED <<page_table_, free_list_, disk>>
     ELSE IF free_list_ # <<>>
     THEN /\ free_list_' = Tail(free_list_)
          /\ lastOp' = Op("fetch", page_id, NoFrame, FALSE, "free")
          /\ UNCHANGED <<pages_, page_table_, list_frame_id, disk>>
     ELSE IF list_frame_id # <<>>
     THEN LET f == VictimFrame(list_frame_id) IN
          \E tmp_page_id \in LookupKeys(page_table_, f) :
            LET found == tmp_page_id # INVALID_PAGE_ID
                dirty == found /\ pages_[f].is_dirty
                disk1 == IF dirty THEN WritePage(disk, tmp_page_id, pages_[f].data) ELSE disk
                page1 == IF dirty THEN [pages_[f] EXCEPT !.pin_count = 0] ELSE pages_[f]
                table1 == IF found THEN Erase(page_table_, pages_[f].page_id) ELSE page_table_
            IN /\ page1.pin_count < MaxPin
               /\ pages_' = [pages_ EXCEPT ![f] = FetchInstall(page1, page_id, ReadPage(disk1, page_id))]
               /\ page_table_' = [table1 EXCEPT ![page_id] = f]
               /\ disk' = disk1
               /\ list_frame_id' = Pin(VictimList(list_frame_id), f)
               /\ lastOp' = Op("fetch", page_id, f, TRUE, "victim")
               /\ UNCHANGED free_list_
     ELSE /\ lastOp' = Op("fetch", page_id, NoFrame, FALSE, "none")
          /\ UNCHANGED <<pages_, page_table_, free_list_, list_frame_id, disk>>

\* ---- BufferPoolManager::UnpinPageImpl ----
UnpinPageImpl(page_id, is_dirty) ==
  /\ ~latch_
  /\ UNCHANGED <<latch_, allocated, page_table_, free_list_, disk>>
  /\ IF page_table_[page_id] = NoFrame
     THEN /\ lastOp' = Op("unpin", page_id, NoFrame, FALSE, "none")
          /\ UNCHANGED <<pages_, list_frame_id>>
     ELSE LET f == page_table_[page_id]
              page1 == IF is_dirty THEN [pages_[f] EXCEPT !.is_dirty = TRUE] ELSE pages_[f]
          IN IF page1.pin_count = 0
             THEN /\ pages_' = [pages_ EXCEPT ![f] = page1]
                  /\ lastOp' = Op("unpin", page_id, f, FALSE, "hit")
                  /\ UNCHANGED list_frame_id
             ELSE /\ pages_' = [pages_ EXCEPT ![f] = [page1 EXCEPT !.pin_count = @ - 1]]
                  /\ list_frame_id' = IF page1.pin_count - 1 = 0
                                      THEN Unpin(list_frame_id, f) ELSE list_frame_id
                  /\ lastOp' = Op("unpin", page_id, f, TRUE, "hit")

\* ---- BufferPoolManager::FlushPageImpl ----
FlushPageImpl(page_id) ==
  /\ ~latch_
  /\ UNCHANGED <<latch_, allocated, pages_, page_table_, free_list_, list_frame_id>>
  /\ IF page_table_[page_id] = NoFrame \/ page_id = INVALID_PAGE_ID
     THEN /\ lastOp' = Op("flush", page_id, NoFrame, FALSE, "none")
          /\ UNCHANGED disk
     ELSE /\ disk' = WritePage(disk, page_id, pages_[page_table_[page_id]].data)
          /\ lastOp' = Op("flush", page_id, page_table_[page_id], FALSE, "hit")

\* ---- BufferPoolManager::NewPageImpl ----
NewPageImpl ==
  /\ ~latch_
  /\ UNCHANGED latch_
  /\ \E tmp_page_id \in AllocatePage(allocated) :
       /\ allocated' = allocated \cup {tmp_page_id}
       /\ IF free_list_ # <<>>
          THEN LET f == Head(free_list_) IN
               /\ free_list_' = Tail(free_list_)
               /\ pages_' = [pages_ EXCEPT ![f] = NewPageInstall(pages_[f], tmp_page_id)]
               /\ disk' = WritePage(disk, tmp_page_id, pages_[f].data)
               /\ page_table_' = Insert(page_table_, tmp_page_id, f)
               /\ lastOp' = Op("new", tmp_page_id, f, TRUE, "free")
               /\ UNCHANGED list_frame_id
          ELSE IF list_frame_id # <<>>
          THEN LET f == VictimFrame(list_frame_id)
                   old == pages_[f]
                   disk1 == IF old.is_dirty THEN WritePage(disk, old.page_id, old.data) ELSE disk
                   page1 == NewPageEvict(old)
               IN /\ list_frame_id' = VictimList(list_frame_id)
                  /\ pages_' = [pages_ EXCEPT ![f] = NewPageInstall(page1, tmp_page_id)]
                  /\ disk' = WritePage(disk1, tmp_page_id, page1.data)
                  /\ page_table_' = Insert(Erase(page_table_, old.page_id), tmp_page_id, f)
                  /\ lastOp' = Op("new", tmp_page_id, f, TRUE, "victim")
                  /\ UNCHANGED free_list_
          ELSE /\ lastOp' = Op("new", tmp_page_id, NoFrame, FALSE, "none")
               /\ UNCHANGED <<pages_, page_table_, free_list_, list_frame_id, disk>>

\* ---- BufferPoolManager::DeletePageImpl ----
\* On a dirty page the code calls FetchPageImpl while it holds latch_; locking
\* a mutex its owner already holds is undefined: the call either never
\* returns (relock = "deadlock") or the lock is not enforced and the hit
\* path of FetchPageImpl runs (relock = "proceed").
Relock == {"deadlock", "proceed"}

DeleteReset(page) ==
  [ResetMemory(page) EXCEPT !.page_id = INVALID_PAGE_ID, !.is_dirty = FALSE]

\* DeleteRefused that lets every page through
DeleteRefused_Never(page) == FALSE

\* step 2 of DeletePageImpl: a non-zero pin count refuses the delete
DeleteRefused(page) == page.pin_count # 0

DeletePageImpl(page_id) ==
  /\ ~latch_
  /\ UNCHANGED disk
  /\ IF page_table_[page_id] = NoFrame
     THEN /\ lastOp' = Op("delete", page_id, NoFrame, TRUE, "none")
          /\ UNCHANGED <<latch_, allocated, pages_, page_table_, free_list_, list_frame_id>>
     ELSE LET f == page_table_[page_id] IN
          IF DeleteRefused(pages_[f])
          THEN /\ lastOp' = Op("delete", page_id, f, FALSE, "hit")
               /\ UNCHANGED <<latch_, allocated, pages_, page_table_, free_list_, list_frame_id>>
          ELSE IF pages_[f].is_dirty
          THEN \E relock \in Relock :
                 IF relock = "deadlock"
                 THEN /\ latch_' = TRUE
                      /\ lastOp' = Op("delete", page_id, f, FALSE, "blocked")
                      /\ UNCHANGED <<allocated, pages_, page_table_, free_list_, list_frame_id>>
                 ELSE /\ list_frame_id' = Pin(list_frame_id, f)
                      /\ pages_' = [pages_ EXCEPT ![f] = DeleteReset([pages_[f] EXCEPT !.pin_count = @ + 1])]
                      /\ allocated' = DeallocatePage(allocated, page_id)
                      /\ page_table_' = Erase(page_table_, page_id)
                      /\ free_list_' = Append(free_list_, f)
                      /\ lastOp' = Op("delete", page_id, f, TRUE, "hit")
                      /\ UNCHANGED latch_
          ELSE /\ pages_' = [pages_ EXCEPT ![f] = DeleteReset(pages_[f])]
               /\ allocated' = DeallocatePage(allocated, page_id)
               /\ page_table_' = Erase(page_table_, page_id)
               /\ free_list_' = Append(free_list_, f)
               /\ lastOp' = Op("delete", page_id, f, TRUE, "hit")
               /\ UNCHANGED <<latch_, list_frame_id>>

\* ---- BufferPoolManager::FlushAllPagesImpl ----
RECURSIVE WriteAll(_, _, _, _)
WriteAll(d, table, pgs, keys) ==
  IF keys = {} THEN d
  ELSE LET k == CHOOSE x \in keys : TRUE
       IN WriteAll(WritePage(d, k, pgs[table[k]].data), table, pgs, keys \ {k})

FlushAllPagesImpl ==
  /\ ~latch_
  /\ disk' = WriteAll(disk, page_table_, pages_, {k \in PageKeys : page_table_[k] # NoFrame})
  /\ lastOp' = Op("flush_all", INVALID_PAGE_ID, NoFrame, TRUE, "none")
  /\ UNCHANGED <<latch_, allocated, pages_, page_table_, free_list_, list_frame_id>>

\* ---- the caller that just got a frame from fetch_page or new_page writes the
\* page payload through the returned pointer while it holds that pin ----
WriteData(f, d) ==
  /\ ~latch_
  /\ lastOp.op \in {"fetch", "new"}
  /\ lastOp.frame = f
  /\ pages_[f].data # d
  /\ pages_' = [pages_ EXCEPT ![f].data = d]
  /\ lastOp' = Op("write", lastOp.page_id, f, TRUE, "hit")
  /\ UNCHANGED <<latch_, allocated, page_table_, free_list_, list_frame_id, disk>>

\* page ids a caller passes: ids the disk manager has handed out, and the sentinel
CallerIds == allocated \cup {INVALID_PAGE_ID}

\* ---- bookkeeping of the callers: per page id, the successful fetch_page and
\* new_page calls minus the successful unpin_page calls.  The count is kept in
\* -1 .. MaxPin + 1 and stays at an end value once it gets there (pin_count
\* is never outside 0 .. MaxPin).
PinsStep(n, delta) ==
  IF n < 0 \/ n > MaxPin THEN n ELSE n + delta

CountPins ==
  /\ UNCHANGED <<expect, order, pending>>
  /\ pins' = IF lastOp'.op \in {"fetch", "new"} /\ lastOp'.ok
             THEN [pins EXCEPT ![lastOp'.page_id] = PinsStep(@, 1)]
             ELSE IF lastOp'.op = "unpin" /\ lastOp'.ok
             THEN [pins EXCEPT ![lastOp'.page_id] = PinsStep(@, -1)]
             ELSE pins

\* ---- bookkeeping of the callers: per page id, the content the page had when
\* an unpin_page(p, true) made it dirty and dropped its last pin (NoData when
\* there is none, or once the page was fetched, created or deleted again)
TrackDirty ==
  /\ UNCHANGED <<pins, order, pending>>
  /\ LET p == lastOp'.page_id
         f == lastOp'.frame
     IN expect' =
          IF p \notin PageIds \/ ~lastOp'.ok THEN expect
          ELSE IF lastOp'.op = "unpin"
          THEN IF ~pages_[f].is_dirty /\ pages_'[f].is_dirty /\ pages_'[f].pin_count = 0
               THEN [expect EXCEPT ![p] = pages_'[f].data]
               ELSE expect
          ELSE IF lastOp'.op \in {"fetch", "new", "delete"}
          THEN [expect EXCEPT ![p] = NoData]
          ELSE expect

\* the operations without the callers' bookkeeping
NoBookkeeping == UNCHANGED <<pins, expect, order, pending>>

Fetch == (\E p \in CallerIds : FetchPageImpl(p)) /\ NoBookkeeping

NewPage == NewPageImpl /\ NoBookkeeping

UnpinOp == (\E p \in CallerIds, b \in BOOLEAN : UnpinPageImpl(p, b)) /\ NoBookkeeping

Flush == (\E p \in CallerIds : FlushPageImpl(p)) /\ NoBookkeeping

FlushAll == FlushAllPagesImpl /\ NoBookkeeping

Delete == (\E p \in CallerIds : DeletePageImpl(p)) /\ NoBookkeeping

Write == (\E f \in Frames, d \in Data : WriteData(f, d)) /\ NoBookkeeping

Next == Fetch \/ NewPage \/ UnpinOp \/ Flush \/ FlushAll \/ Delete \/ Write

Spec == Init /\ [][Next]_vars

\* the same operations when callers pass only page ids the disk manager handed out
FetchValid == (\E p \in allocated : FetchPageImpl(p)) /\ NoBookkeeping

UnpinValid == (\E p \in allocated, b \in BOOLEAN : UnpinPageImpl(p, b)) /\ NoBookkeeping

FlushValid == (\E p \in allocated : FlushPageImpl(p)) /\ NoBookkeeping

DeleteValid == (\E p \in allocated : DeletePageImpl(p)) /\ NoBookkeeping

NextValid ==
  FetchValid \/ NewPage \/ UnpinValid \/ FlushValid \/ FlushAll \/ DeleteValid \/ Write

SpecValid == Init /\ [][NextValid]_vars

\* the operations on valid page ids with the callers' bookkeeping of pins
FetchCounted == (\E p \in allocated : FetchPageImpl(p)) /\ CountPins

NewPageCounted == NewPageImpl /\ CountPins

UnpinCounted == (\E p \in allocated, b \in BOOLEAN : UnpinPageImpl(p, b)) /\ CountPins

FlushCounted == (\E p \in allocated : FlushPageImpl(p)) /\ CountPins

FlushAllCounted == FlushAllPagesImpl /\ CountPins

DeleteCounted == (\E p \in allocated : DeletePageImpl(p)) /\ CountPins

WriteCounted == (\E f \in Frames, d \in Data : WriteData(f, d)) /\ CountPins

NextPins ==
  \/ FetchCounted \/ NewPageCounted \/ UnpinCounted \/ FlushCounted
  \/ FlushAllCounted \/ DeleteCounted \/ WriteCounted

SpecPins == Init /\ [][NextPins]_vars

\* the operations with the callers' bookkeeping of dirty page contents
FetchTracked == (\E p \in CallerIds : FetchPageImpl(p)) /\ TrackDirty

NewPageTracked == NewPageImpl /\ TrackDirty

UnpinTracked == (\E p \in CallerIds, b \in BOOLEAN : UnpinPageImpl(p, b)) /\ TrackDirty

FlushTracked == (\E p \in CallerIds : FlushPageImpl(p)) /\ TrackDirty

FlushAllTracked == FlushAllPagesImpl /\ TrackDirty

DeleteTracked == (\E p \in CallerIds : DeletePageImpl(p)) /\ TrackDirty

WriteTracked == (\E f \in Frames, d \in Data : WriteData(f, d)) /\ TrackDirty

NextDirty ==
  \/ FetchTracked \/ NewPageTracked \/ UnpinTracked \/ FlushTracked
  \/ FlushAllTracked \/ DeleteTracked \/ WriteTracked

SpecDirty == Init /\ [][NextDirty]_vars

\* ---- the replacer on its own: an LRUReplacer(LRUPages) driven directly by
\* victim / pin / unpin calls on frame ids below LRUPages.  order is the
\* reference: the tracked frame ids from the oldest insertion to the newest.
LRUFrames == 0 .. (LRUPages - 1)

BufferPoolIdle ==
  UNCHANGED <<pages_, page_table_, free_list_, latch_, disk, allocated, pins, expect, pending>>

LRUVictim ==
  /\ list_frame_id' = VictimList(list_frame_id)
  /\ lastOp' = Op("victim", INVALID_PAGE_ID, VictimFrame(list_frame_id),
                  list_frame_id # <<>>, "none")
  /\ order' = IF order = <<>> THEN order ELSE Tail(order)
  /\ BufferPoolIdle

LRUPin(frame_id) ==
  /\ list_frame_id' = Pin(list_frame_id, frame_id)
  /\ lastOp' = Op("pin", INVALID_PAGE_ID, frame_id, TRUE, "none")
  /\ order' = SelectSeq(order, LAMBDA y : y # frame_id)
  /\ BufferPoolIdle

LRUUnpin(frame_id) ==
  /\ list_frame_id' = UnpinN(list_frame_id, frame_id, LRUPages)
  /\ lastOp' = Op("unpin", INVALID_PAGE_ID, frame_id, TRUE, "none")
  /\ order' = IF \E i \in 1 .. Len(order) : order[i] = frame_id
              THEN order ELSE Append(order, frame_id)
  /\ BufferPoolIdle

LRUPinAny == \E x \in LRUFrames : LRUPin(x)

LRUUnpinAny == \E x \in LRUFrames : LRUUnpin(x)

NextLRU == LRUVictim \/ LRUPinAny \/ LRUUnpinAny

SpecLRU == Init /\ [][NextLRU]_vars

\* ---- threads: every operation runs under latch_ and is one step, except
\* that the hit path of FetchPageImpl evaluates &pages_[page_table_[page_id]]
\* after latch_.unlock(); that evaluation is the separate step FetchReturn.
ThreadStep(t) ==
  /\ pending[t] = Idle
  /\ UNCHANGED <<pins, expect, order>>

ThreadFetch(t) ==
  /\ ThreadStep(t)
  /\ \E p \in allocated :
       /\ FetchPageImpl(p)
       /\ pending' = IF lastOp'.via = "hit"
                     THEN [pending EXCEPT ![t] = [page_id |-> p, frame |-> lastOp'.frame]]
                     ELSE pending

\* std::unordered_map::operator[] inserts a value-initialised frame id (0)
\* when the key is absent
SubscriptTable(table, page_id) ==
  IF table[page_id] = NoFrame THEN [table EXCEPT ![page_id] = 0] ELSE table

FetchReturn(t) ==
  /\ pending[t] # Idle
  /\ page_table_' = SubscriptTable(page_table_, pending[t].page_id)
  /\ lastOp' = Op("fetch", pending[t].page_id, page_table_'[pending[t].page_id], TRUE, "return")
  /\ pending' = [pending EXCEPT ![t] = Idle]
  /\ UNCHANGED <<pages_, free_list_, list_frame_id, latch_, disk, allocated, pins, expect, order>>

ThreadNewPage(t) == ThreadStep(t) /\ NewPageImpl /\ UNCHANGED pending

ThreadUnpin(t) ==
  /\ ThreadStep(t)
  /\ \E p \in allocated, b \in BOOLEAN : UnpinPageImpl(p, b)
  /\ UNCHANGED pending

ThreadFlush(t) ==
  ThreadStep(t) /\ (\E p \in allocated : FlushPageImpl(p)) /\ UNCHANGED pending

ThreadFlushAll(t) == ThreadStep(t) /\ FlushAllPagesImpl /\ UNCHANGED pending

ThreadDelete(t) ==
  ThreadStep(t) /\ (\E p \in allocated : DeletePageImpl(p)) /\ UNCHANGED pending

FetchAny == \E t \in Threads : ThreadFetch(t)

ReturnAny == \E t \in Threads : FetchReturn(t)

NewPageAny == \E t \in Threads : ThreadNewPage(t)

UnpinAny == \E t \in Threads : ThreadUnpin(t)

FlushAny == \E t \in Threads : ThreadFlush(t)

FlushAllAny == \E t \in Threads : ThreadFlushAll(t)

DeleteAny == \E t \in Threads : ThreadDelete(t)

NextThreads ==
  \/ FetchAny \/ ReturnAny \/ NewPageAny \/ UnpinAny
  \/ FlushAny \/ FlushAllAny \/ DeleteAny

SpecThreads == Init /\ [][NextThreads]_vars

TypeOK ==
  /\ \A f \in Frames : pages_[f].pin_count \in 0 .. MaxPin /\ pages_[f].page_id \in PageKeys
  /\ Range(free_list_) \subseteq Frames
  /\ Range(list_frame_id) \subseteq Frames

\* ---- properties ----
Resident(f) == \E p \in PageKeys : page_table_[p] = f

InFreeList(f) == f \in Range(free_list_)

InReplacer(f) == f \in Range(list_frame_id)

Count(s, x) == Cardinality({i \in 1 .. Len(s) : s[i] = x})

BoolToNat(b) == IF b THEN 1 ELSE 0

\* C1: every frame id is in exactly one of: the free list; resident, pinned
\* and not in the replacer; resident, unpinned and in the replacer.
C1_Partition ==
  \A f \in Frames :
    BoolToNat(InFreeList(f))
    + BoolToNat(Resident(f) /\ pages_[f].pin_count > 0 /\ ~InReplacer(f))
    + BoolToNat(Resident(f) /\ pages_[f].pin_count = 0 /\ InReplacer(f)) = 1

\* C2: a page resident in a frame with pin_count > 0 stays in that frame and
\* in the page table across every fetch_page and new_page call.
C2_PinnedNeverEvicted ==
  [][\A f \in Frames :
       LET p == pages_[f].page_id IN
       (/\ p # INVALID_PAGE_ID
        /\ page_table_[p] = f
        /\ pages_[f].pin_count > 0
        /\ lastOp'.op \in {"fetch", "new"})
       => (pages_'[f].page_id = p /\ page_table_'[p] = f)]_vars

\* C3: a frame is tracked by the replacer iff it is resident with pin_count 0.
C3_ReplacerAgreement ==
  \A f \in Frames : InReplacer(f) <=> (Resident(f) /\ pages_[f].pin_count = 0)

\* C4: the page table holds (p, f) iff pages[f].page_id = p and p is not
\* INVALID_PAGE_ID.
C4_TableConsistency ==
  \A p \in PageKeys, f \in Frames :
    (page_table_[p] = f) <=> (pages_[f].page_id = p /\ p # INVALID_PAGE_ID)

\* C5: fetch_page of a valid non-resident page id with a non-empty free list
\* installs the page in the front frame of the free list: pin_count 1, clean,
\* data read from disk, mapped in the page table, nothing written back.
C5_FetchMissFromFreeList ==
  [][LET p == lastOp'.page_id IN
     (/\ lastOp'.op = "fetch"
      /\ p # INVALID_PAGE_ID
      /\ page_table_[p] = NoFrame
      /\ free_list_ # <<>>)
     => LET f == Head(free_list_) IN
        /\ lastOp'.frame = f
        /\ pages_'[f] = [page_id |-> p, pin_count |-> 1, is_dirty |-> FALSE,
                         data |-> ReadPage(disk, p)]
        /\ page_table_'[p] = f
        /\ free_list_' = Tail(free_list_)
        /\ list_frame_id' = list_frame_id
        /\ disk' = disk]_vars

\* C6: fetch_page of a valid non-resident page id, and new_page, return "none"
\* iff every frame has pin_count > 0.
C6_NoneIffAllPinned ==
  [][LET p == lastOp'.page_id IN
     (\/ lastOp'.op = "new"
      \/ (lastOp'.op = "fetch" /\ p # INVALID_PAGE_ID /\ page_table_[p] = NoFrame))
     => ((lastOp'.frame = NoFrame) <=> (\A f \in Frames : pages_[f].pin_count > 0))]_vars

\* C7: when new_page returns "none" the set of allocated page ids is the same
\* as before the call.
C7_NoLeakOnFailure ==
  [][(lastOp'.op = "new" /\ lastOp'.frame = NoFrame) => allocated' = allocated]_vars

\* C8: when new_page succeeds with frame f and page id p, p was freshly
\* allocated, pages[f] has page_id p, pin_count 1, is clean and zeroed, and
\* the page table maps p to f.
C8_NewPageInstalls ==
  [][(lastOp'.op = "new" /\ lastOp'.frame # NoFrame)
     => LET f == lastOp'.frame
            p == lastOp'.page_id
        IN /\ p \in PageIds
           /\ p \notin allocated
           /\ p \in allocated'
           /\ pages_'[f] = [page_id |-> p, pin_count |-> 1, is_dirty |-> FALSE,
                            data |-> Zeroes]
           /\ page_table_'[p] = f]_vars

\* C9: delete_page of a resident page with pin_count 0 returns true, and the
\* page is out of the page table, its frame is untracked by the replacer, in
\* the free list once and reset, and the page id is deallocated.
C9_DeleteUnpinned ==
  [][LET p == lastOp'.page_id
         f == page_table_[p]
     IN (lastOp'.op = "delete" /\ f # NoFrame /\ pages_[f].pin_count = 0)
        => (/\ ~latch_'
            /\ lastOp'.ok
            /\ page_table_'[p] = NoFrame
            /\ f \notin Range(list_frame_id')
            /\ Count(free_list_', f) = 1
            /\ pages_'[f].page_id = INVALID_PAGE_ID
            /\ pages_'[f].is_dirty = FALSE
            /\ pages_'[f].data = Zeroes
            /\ p \notin allocated')]_vars

\* C10: every public operation runs to completion and leaves the pool latch
\* released; no call stays blocked on the latch.
C10_LatchReleased == latch_ = FALSE

\* C11: for every resident page id p, pin_count of p's frame equals the
\* successful fetch_page(p) and new_page(->p) calls minus the successful
\* unpin_page(p) calls; the frame installed by a fetch_page miss has
\* pin_count 1 on return.
C11_PinBalance ==
  /\ \A p \in PageKeys :
       page_table_[p] # NoFrame => pages_[page_table_[p]].pin_count = pins[p]
  /\ (lastOp.op = "fetch" /\ lastOp.via = "victim")
       => pages_[lastOp.frame].pin_count = 1

\* C12: unpin_page(p, d) returns false exactly when p is not in the page table
\* or its frame has pin_count 0, and then no pin_count changes; otherwise it
\* returns true, decrements pin_count by one and adds the frame to the
\* replacer exactly when the count reached 0.  pin_count is never negative.
C12_UnpinResult ==
  [][/\ \A g \in Frames : pages_'[g].pin_count >= 0
     /\ lastOp'.op = "unpin"
        => LET p == lastOp'.page_id
               f == page_table_[p]
           IN IF f = NoFrame \/ pages_[f].pin_count = 0
              THEN /\ ~lastOp'.ok
                   /\ \A g \in Frames : pages_'[g].pin_count = pages_[g].pin_count
                   /\ list_frame_id' = list_frame_id
              ELSE /\ lastOp'.ok
                   /\ pages_'[f].pin_count = pages_[f].pin_count - 1
                   /\ \A g \in Frames \ {f} : pages_'[g].pin_count = pages_[g].pin_count
                   /\ IF pages_'[f].pin_count = 0
                      THEN /\ f \in Range(list_frame_id')
                           /\ Range(list_frame_id') = Range(list_frame_id) \cup {f}
                      ELSE list_frame_id' = list_frame_id]_vars

\* an unpin_page that dropped the last pin and put the frame in the replacer
C12_Witness ==
  /\ lastOp.op = "unpin"
  /\ lastOp.ok
  /\ pages_[lastOp.frame].pin_count = 0
  /\ list_frame_id = <<lastOp.frame>>

\* C13: flush_page(p) returns true whenever p is a valid page id in the page
\* table, after writing the frame's data to disk, and returns false only when
\* p is INVALID_PAGE_ID or not in the page table.
C13_FlushResult ==
  [][lastOp'.op = "flush"
     => LET p == lastOp'.page_id
            resident == p # INVALID_PAGE_ID /\ page_table_[p] # NoFrame
        IN /\ lastOp'.ok <=> resident
           /\ resident => disk' = WritePage(disk, p, pages_[page_table_[p]].data)]_vars

\* C14: delete_page(p) on a page whose frame has pin_count # 0 returns false
\* and changes nothing; a frame never goes from resident-and-pinned to free.
C14_DeletePinned ==
  [][/\ \A g \in Frames :
          (Resident(g) /\ pages_[g].pin_count > 0 /\ ~InFreeList(g))
          => g \notin Range(free_list_')
     /\ LET p == lastOp'.page_id
            f == page_table_[p]
        IN (lastOp'.op = "delete" /\ f # NoFrame /\ pages_[f].pin_count # 0)
           => /\ ~lastOp'.ok
              /\ ~latch_'
              /\ UNCHANGED <<pages_, page_table_, free_list_, list_frame_id, allocated, disk>>]_vars

\* a delete_page that was refused because the page is pinned
C14_Witness ==
  /\ lastOp.op = "delete"
  /\ ~lastOp.ok
  /\ ~latch_
  /\ lastOp.page_id \in PageIds
  /\ page_table_[lastOp.page_id] = lastOp.frame
  /\ pages_[lastOp.frame].pin_count > 0

\* C15: delete_page(p) on a page id that is not in the page table calls
\* deallocate_page(p) and returns true, leaving the frames, page table, free
\* list and replacer unchanged.
C15_DeleteAbsent ==
  [][LET p == lastOp'.page_id IN
     (lastOp'.op = "delete" /\ page_table_[p] = NoFrame)
     => /\ lastOp'.ok
        /\ allocated' = DeallocatePage(allocated, p)
        /\ UNCHANGED <<pages_, page_table_, free_list_, list_frame_id>>]_vars

\* C16: when an unpin_page(p, true) dropped p to pin_count 0 with content B and
\* p is later evicted and fetched again, the fetched frame holds B; no
\* eviction of a dirty frame skips the write_page of its content under its
\* own page id.
C16_DirtyRoundTrip ==
  [][/\ (lastOp'.op = "fetch" /\ lastOp'.ok /\ lastOp'.via \in {"free", "victim"}
         /\ lastOp'.page_id \in PageIds)
        => (expect[lastOp'.page_id] # NoData
            => pages_'[lastOp'.frame].data = expect[lastOp'.page_id])
     /\ (lastOp'.op \in {"fetch", "new"} /\ lastOp'.via = "victim")
        => LET f == lastOp'.frame
               q == pages_[f].page_id
           IN (q \in PageIds /\ page_table_[q] = f /\ pages_[f].is_dirty)
              => disk'[q] = pages_[f].data]_vars

\* C17: fetch_page(INVALID_PAGE_ID) returns "none" and leaves the page table,
\* free list, replacer and all frame metadata unchanged.
C17_FetchInvalidRejected ==
  [][(lastOp'.op = "fetch" /\ lastOp'.page_id = INVALID_PAGE_ID)
     => /\ ~lastOp'.ok
        /\ lastOp'.frame = NoFrame
        /\ page_table_'[INVALID_PAGE_ID] = NoFrame
        /\ UNCHANGED <<pages_, page_table_, free_list_, list_frame_id>>]_vars

\* C18: victim returns and removes the tracked frame id with the oldest
\* insertion and returns "none" iff nothing is tracked; unpin of a tracked
\* frame and pin of an untracked frame change nothing; the replacer tracks
\* exactly the frames unpinned and not pinned or evicted since, so that
\* unpin(a), unpin(b), unpin(c) and three victim calls yield a, b, c.
C18_LRUOrder ==
  [][/\ lastOp'.op = "victim"
        => IF order = <<>>
           THEN ~lastOp'.ok /\ list_frame_id' = list_frame_id
           ELSE /\ lastOp'.ok
                /\ lastOp'.frame = Head(order)
                /\ Range(list_frame_id') = Range(list_frame_id) \ {lastOp'.frame}
     /\ (lastOp'.op = "unpin" /\ lastOp'.frame \in Range(list_frame_id))
        => list_frame_id' = list_frame_id
     /\ (lastOp'.op = "pin" /\ lastOp'.frame \notin Range(list_frame_id))
        => list_frame_id' = list_frame_id
     /\ Len(list_frame_id') = Len(order')
     /\ \A i \in 1 .. Len(order') :
          order'[i] = list_frame_id'[Len(list_frame_id') + 1 - i]]_vars

\* a victim call that returned the oldest of three tracked frames
C18_Witness ==
  /\ lastOp.op = "victim"
  /\ lastOp.ok
  /\ Len(list_frame_id) = 2
  /\ Len(order) = 2
  /\ lastOp.frame \notin Range(list_frame_id)

C20_HitReturnsPinnedFrame ==
  [][\A t \in Threads :
       (pending[t] # Idle /\ pending'[t] = Idle)
       => /\ page_table_[pending[t].page_id] = pending[t].frame
          /\ lastOp'.frame = pending[t].frame
          /\ page_table_' = page_table_]_vars

====
